---- MODULE Spec2Model ----
(***************************************************************************)
(* Model of src/main.py: PathfindingEngine (Dijkstra / weighted A* over an *)
(* occupancy grid, exposed as a Python generator) and the part of          *)
(* run_dashboard that builds the two engines and pulls their generators.   *)
(*                                                                         *)
(* Representation choices:                                                 *)
(*  - numpy arrays live in a store `arrays` and are held by reference, so   *)
(*    that copying (.copy()) and sharing an array are different things;     *)
(*  - priorities are stored doubled (prio2 = 2 * priority): the A* weight   *)
(*    1.5 makes every priority a multiple of 0.5, and doubling keeps the    *)
(*    order and equality of priorities while staying in the integers;       *)
(*  - the heap list `pq` is kept in push order; heappop / nsmallest are     *)
(*    modelled by heapq's contract on the tuples (priority, (row, col));    *)
(*  - None is the empty tuple.                                              *)
(***************************************************************************)
EXTENDS Integers, Sequences, FiniteSets, TLC

VARIABLES
    GRID_SIZE,      \* main.py:14, side of the square grid
    START_NODE,     \* main.py:16
    END_NODE,       \* main.py:17
    arrays,         \* store of numpy arrays: reference -> contents
    grid,           \* engine -> reference of self.grid
    visual_grid,    \* engine -> reference of self.visual_grid
    eng,            \* engine -> nodes_explored and the frame of its generator
    out,            \* engine -> what the last next(gen) gave the driver
    runs,           \* engine -> number of calls of run() so far
    history,        \* engine -> the Steps of the current run, as delivered
    firstRun,       \* engine -> the Steps of the engine's first run
    alone,          \* engine -> the same engine advanced alone (SpecAny)
    finished,       \* main.py:189-190, finished_d and finished_a
    turn            \* which half of the driver's loop body comes next

vars == <<GRID_SIZE, START_NODE, END_NODE, arrays, grid, visual_grid, eng,
          out, runs, history, firstRun, alone, finished, turn>>

----------------------------------------------------------------------------
(* Bounds of the model *)

MaxSize == 3
MaxWalls == 1
MaxRuns == 2
MaxHeap == 52

(* Program constants *)

HEAP_SAMPLE == 50

----------------------------------------------------------------------------
(* Values *)

Engines == {"dijkstra", "astar"}

None == <<>>

Cells(n) == (0 .. n - 1) \X (0 .. n - 1)

EMPTY == 0
WALL == 1
QUEUED == 2
VISITED == 3
PATH == 4

Abs(x) == IF x < 0 THEN -x ELSE x

Min(a, b) == IF a < b THEN a ELSE b

Put(f, k, v) == (k :> v) @@ f

(* numpy indexing of an axis of length n: -n .. -1 count from the end, and  *)
(* anything outside -n .. n-1 raises IndexError                             *)
IndexInBounds(i, n) == -n <= i /\ i < n

NumpyIndex(i, n) == IF i < 0 THEN i + n ELSE i

(* the cell of a GRID_SIZE x GRID_SIZE array that array[node] names *)
ArrayIndex(node) ==
    <<NumpyIndex(node[1], GRID_SIZE), NumpyIndex(node[2], GRID_SIZE)>>

----------------------------------------------------------------------------
(* PathfindingEngine helpers *)

heuristic(a, b) == Abs(a[1] - b[1]) + Abs(a[2] - b[2])

directions == << <<0, 1>>, <<1, 0>>, <<0, -1>>, <<-1, 0>> >>

(* line 61 without its test of self.grid: walls count as neighbours *)
NeighborsThroughWalls(g, node) ==
    LET cand == [i \in 1 .. 4 |->
                    <<node[1] + directions[i][1], node[2] + directions[i][2]>>]
        ok(p) == /\ 0 <= p[1] /\ p[1] < GRID_SIZE
                 /\ 0 <= p[2] /\ p[2] < GRID_SIZE
    IN  SelectSeq(cand, ok)

get_neighbors(g, node) ==
    LET cand == [i \in 1 .. 4 |->
                    <<node[1] + directions[i][1], node[2] + directions[i][2]>>]
        ok(p) == /\ 0 <= p[1] /\ p[1] < GRID_SIZE
                 /\ 0 <= p[2] /\ p[2] < GRID_SIZE
                 /\ g[p] = 0
    IN  SelectSeq(cand, ok)

(* Python's order on the tuples (priority, (row, col)) *)
TupleLess(a, b) ==
    \/ a[1] < b[1]
    \/ /\ a[1] = b[1]
       /\ \/ a[2][1] < b[2][1]
          \/ a[2][1] = b[2][1] /\ a[2][2] < b[2][2]

(* a push that takes the older entries of the node off the heap *)
PushReplacing(pq, item) ==
    LET other(x) == x[2] # item[2]
    IN  Append(SelectSeq(pq, other), item)

heappush(pq, item) == Append(pq, item)

(* a heap that gives back the entry pushed last *)
HeapLastIndex(pq) == Len(pq)

(* a heap that gives back, of the node of its lowest entry, the entry that  *)
(* was pushed first                                                         *)
HeapOldestIndex(pq) ==
    LET low == CHOOSE i \in 1 .. Len(pq) :
                   \A j \in 1 .. Len(pq) :
                       j = i \/ TupleLess(pq[i], pq[j]) \/ (pq[j] = pq[i] /\ i < j)
    IN  CHOOSE k \in 1 .. Len(pq) :
            /\ pq[k][2] = pq[low][2]
            /\ \A j \in 1 .. k - 1 : pq[j][2] # pq[low][2]

(* a heap ordered by priority alone: of the entries with the lowest        *)
(* priority it gives back the one that was pushed first                     *)
HeapFirstLowestIndex(pq) ==
    CHOOSE i \in 1 .. Len(pq) :
        \A j \in 1 .. Len(pq) :
            j = i \/ pq[i][1] < pq[j][1] \/ (pq[i][1] = pq[j][1] /\ i < j)

HeapMinIndex(pq) ==
    CHOOSE i \in 1 .. Len(pq) :
        \A j \in 1 .. Len(pq) : j = i \/ TupleLess(pq[i], pq[j]) \/ (pq[j] = pq[i] /\ i < j)

RemoveAt(s, i) == SubSeq(s, 1, i - 1) \o SubSeq(s, i + 1, Len(s))

(* heappop: the popped item and the heap that is left *)
heappop(pq) ==
    LET i == HeapMinIndex(pq)
    IN  [item |-> pq[i], rest |-> RemoveAt(pq, i)]

(* the first n entries of the heap list as it lies, pq[:n] *)
HeapPrefix(n, pq) == SubSeq(pq, 1, Min(n, Len(pq)))

nsmallest(n, pq) ==
    LET sorted == SortSeq(pq, TupleLess)
    IN  SubSeq(sorted, 1, Min(n, Len(sorted)))

Priorities(raw_heap) == [i \in 1 .. Len(raw_heap) |-> raw_heap[i][1]]

(* priority of a relaxed node, doubled *)
Priority2(algo_type, new_cost, next_node) ==
    2 * new_cost
      + (IF algo_type = "astar" THEN 3 * heuristic(next_node, END_NODE) ELSE 0)

----------------------------------------------------------------------------
(* PathfindingEngine.run, as the generator's frame.                         *)
(* e is the engine with the frame of its generator:                         *)
(*   algo_type, nodes_explored, pc, pq, came_from, cost_so_far, curr        *)
(* pc is where the generator is suspended: "created" (run() was called, no  *)
(* next() yet), "line113", "line123", "line126" (the three yields), or      *)
(* "closed" (the function body has returned).                               *)
(* g is the contents of self.grid, v the contents of self.visual_grid.      *)
(* Every operator returns                                                   *)
(*   [eng, vis, kind, heap, popped, marked]                                 *)
(* the engine and visual grid after the advance, what next() gave back      *)
(* ("Step", "Done" or "StopIteration" and the heap list), the nodes the     *)
(* advance took off the heap and the cells it marked as path, in order.     *)

NewFrame(algo_type, nodes_explored) ==
    [algo_type |-> algo_type, nodes_explored |-> nodes_explored,
     pc |-> "created", pq |-> <<>>, came_from |-> <<>>, cost_so_far |-> <<>>,
     curr |-> None]

(* lines 72-75, without line 76: the count of the run before is kept *)
RunInitKeepsCount(e) ==
    [e EXCEPT !.pq = heappush(<<>>, <<0, START_NODE>>),
              !.came_from = START_NODE :> None,
              !.cost_so_far = START_NODE :> 0]

(* lines 72-76 *)
RunInit(e) ==
    [e EXCEPT !.pq = heappush(<<>>, <<0, START_NODE>>),
              !.came_from = START_NODE :> None,
              !.cost_so_far = START_NODE :> 0,
              !.nodes_explored = 0]

(* the test of line 99 with <= for <: a node is relaxed again on a tie *)
ImprovesOrTies(s, new_cost, next_node) ==
    \/ next_node \notin DOMAIN s.cost_so_far
    \/ new_cost <= s.cost_so_far[next_node]

(* lines 99-111 for one neighbour; s = [pq, came_from, cost_so_far, vis] *)
Improves(s, new_cost, next_node) ==
    \/ next_node \notin DOMAIN s.cost_so_far
    \/ new_cost < s.cost_so_far[next_node]

MarkQueued(v, next_node) ==
    IF next_node # END_NODE THEN [v EXCEPT ![ArrayIndex(next_node)] = QUEUED] ELSE v

(* line 108 placed after the if of line 99: came_from is assigned for      *)
(* every neighbour, relaxed or not                                          *)
RelaxOneAlwaysParent(s, algo_type, current, next_node) ==
    LET new_cost == s.cost_so_far[current] + 1
    IN  IF Improves(s, new_cost, next_node)
        THEN [pq |-> heappush(s.pq,
                        <<Priority2(algo_type, new_cost, next_node), next_node>>),
              came_from |-> Put(s.came_from, next_node, current),
              cost_so_far |-> Put(s.cost_so_far, next_node, new_cost),
              vis |-> MarkQueued(s.vis, next_node)]
        ELSE [s EXCEPT !.came_from = Put(s.came_from, next_node, current)]

RelaxOne(s, algo_type, current, next_node) ==
    LET new_cost == s.cost_so_far[current] + 1
    IN  IF Improves(s, new_cost, next_node)
        THEN [pq |-> heappush(s.pq,
                        <<Priority2(algo_type, new_cost, next_node), next_node>>),
              came_from |-> Put(s.came_from, next_node, current),
              cost_so_far |-> Put(s.cost_so_far, next_node, new_cost),
              vis |-> MarkQueued(s.vis, next_node)]
        ELSE s

(* lines 96-111: the for loop over get_neighbors(current) *)
RECURSIVE RelaxFrom(_, _, _, _, _)
RelaxFrom(s, algo_type, current, nbrs, i) ==
    IF i > Len(nbrs) THEN s
    ELSE RelaxFrom(RelaxOne(s, algo_type, current, nbrs[i]),
                   algo_type, current, nbrs, i + 1)

(* lines 92-94 *)
MarkVisited(v, current) ==
    IF current # START_NODE THEN [v EXCEPT ![ArrayIndex(current)] = VISITED] ELSE v

(* line 94 placed outside the if of line 92: the pop of the start counts *)
CountEveryPop(n, current) == n + 1

CountExplored(n, current) ==
    IF current # START_NODE THEN n + 1 ELSE n

(* lines 120-126 without line 124: the start is left as it is *)
PathWalkLeavesStart(e, v, popped) ==
    IF e.curr # START_NODE
    THEN [eng |-> [e EXCEPT !.curr = e.came_from[e.curr], !.pc = "line123"],
          vis |-> [v EXCEPT ![ArrayIndex(e.curr)] = PATH],
          kind |-> "Step", heap |-> <<>>, popped |-> popped,
          marked |-> <<e.curr>>]
    ELSE [eng |-> [e EXCEPT !.pc = "line126"],
          vis |-> v,
          kind |-> "Done", heap |-> <<>>, popped |-> popped,
          marked |-> <<>>]

(* lines 120-126: the while loop of the reconstruction and the last yield *)
PathWalk(e, v, popped) ==
    IF e.curr # START_NODE
    THEN [eng |-> [e EXCEPT !.curr = e.came_from[e.curr], !.pc = "line123"],
          vis |-> [v EXCEPT ![ArrayIndex(e.curr)] = PATH],
          kind |-> "Step", heap |-> <<>>, popped |-> popped,
          marked |-> <<e.curr>>]
    ELSE [eng |-> [e EXCEPT !.pc = "line126"],
          vis |-> [v EXCEPT ![ArrayIndex(START_NODE)] = PATH],
          kind |-> "Done", heap |-> <<>>, popped |-> popped,
          marked |-> <<START_NODE>>]

(* the last yield placed inside the if: no DONE when no path was found *)
ReconstructNoDone(e, v, popped) ==
    LET e1 == [e EXCEPT !.curr = END_NODE]
    IN  IF END_NODE \in DOMAIN e.came_from
        THEN PathWalk(e1, v, popped)
        ELSE [eng |-> [e1 EXCEPT !.pc = "closed"], vis |-> v,
              kind |-> "StopIteration", heap |-> <<>>, popped |-> popped,
              marked |-> <<>>]

(* line 124 placed outside the if: the start is marked whatever was found *)
ReconstructMarksStart(e, v, popped) ==
    LET e1 == [e EXCEPT !.curr = END_NODE]
    IN  IF END_NODE \in DOMAIN e.came_from
        THEN PathWalk(e1, v, popped)
        ELSE [eng |-> [e1 EXCEPT !.pc = "line126"],
              vis |-> [v EXCEPT ![START_NODE] = PATH],
              kind |-> "Done", heap |-> <<>>, popped |-> popped,
          marked |-> <<START_NODE>>]

(* lines 116-126 *)
Reconstruct(e, v, popped) ==
    LET e1 == [e EXCEPT !.curr = END_NODE]
    IN  IF END_NODE \in DOMAIN e.came_from
        THEN PathWalk(e1, v, popped)
        ELSE [eng |-> [e1 EXCEPT !.pc = "line126"], vis |-> v,
              kind |-> "Done", heap |-> <<>>, popped |-> popped, marked |-> <<>>]

(* lines 89-90 left out: the goal is expanded like any other node *)
ExpandNoBreak(e, g, v) ==
    LET raw_heap == nsmallest(HEAP_SAMPLE, e.pq)
        heap_priorities == Priorities(raw_heap)
        top == heappop(e.pq)
        current == top.item[2]
        s == RelaxFrom([pq |-> top.rest,
                        came_from |-> e.came_from,
                        cost_so_far |-> e.cost_so_far,
                        vis |-> MarkVisited(v, current)],
                       e.algo_type, current, get_neighbors(g, current), 1)
    IN  [eng |-> [e EXCEPT !.pq = s.pq,
                           !.came_from = s.came_from,
                           !.cost_so_far = s.cost_so_far,
                           !.nodes_explored = CountExplored(@, current),
                           !.pc = "line113"],
         vis |-> s.vis,
         kind |-> "Step", heap |-> heap_priorities,
         popped |-> <<current>>, marked |-> <<>>]

(* lines 83-113: one iteration of the while loop, pq not empty *)
Expand(e, g, v) ==
    LET raw_heap == nsmallest(HEAP_SAMPLE, e.pq)
        heap_priorities == Priorities(raw_heap)
        top == heappop(e.pq)
        current == top.item[2]
    IN  IF current = END_NODE
        THEN Reconstruct([e EXCEPT !.pq = top.rest], v, <<current>>)
        ELSE LET s == RelaxFrom([pq |-> top.rest,
                                 came_from |-> e.came_from,
                                 cost_so_far |-> e.cost_so_far,
                                 vis |-> MarkVisited(v, current)],
                                e.algo_type, current, get_neighbors(g, current), 1)
             IN  [eng |-> [e EXCEPT !.pq = s.pq,
                                    !.came_from = s.came_from,
                                    !.cost_so_far = s.cost_so_far,
                                    !.nodes_explored = CountExplored(@, current),
                                    !.pc = "line113"],
                  vis |-> s.vis,
                  kind |-> "Step", heap |-> heap_priorities,
                  popped |-> <<current>>, marked |-> <<>>]

(* line 78: while pq *)
WhileLoop(e, g, v) ==
    IF e.pq # <<>> THEN Expand(e, g, v) ELSE Reconstruct(e, v, <<>>)

(* a generator that gives DONE again instead of ending *)
DoneAgain(e, v) ==
    [eng |-> [e EXCEPT !.pc = "line126"], vis |-> v,
     kind |-> "Done", heap |-> <<>>, popped |-> <<>>, marked |-> <<>>]

StopIteration(e, v) ==
    [eng |-> [e EXCEPT !.pc = "closed"], vis |-> v,
     kind |-> "StopIteration", heap |-> <<>>, popped |-> <<>>, marked |-> <<>>]

(* next(gen): resume the generator until its next yield or its return *)
Resume(e, g, v) ==
    CASE e.pc = "created" -> WhileLoop(RunInit(e), g, v)
      [] e.pc = "line113" -> WhileLoop(e, g, v)
      [] e.pc = "line123" -> PathWalk(e, v, <<>>)
      [] e.pc = "line126" -> StopIteration(e, v)
      [] e.pc = "closed"  -> StopIteration(e, v)

----------------------------------------------------------------------------
(* The grids the engines are built over *)

Placements(n) ==
    { << <<0, 0>>, <<n - 1, n - 1>> >>, << <<n - 1, n - 1>>, <<0, 0>> >> }

WallSets(n) == { W \in SUBSET Cells(n) : Cardinality(W) <= MaxWalls }

BoundedConfigs ==
    UNION { { [size |-> n, start |-> p[1], goal |-> p[2], walls |-> W] :
                p \in Placements(n), W \in WallSets(n) } : n \in 2 .. MaxSize }

(* Fixed layouts: the open 5x5 grid, a start walled in on all four sides,   *)
(* a detour, layouts on which the weighted search relaxes a queued cell or  *)
(* an expanded cell a second time (with the goal cut off, and with the goal *)
(* reached), and one on which it finds a path longer than the shortest one  *)
Scenarios ==
    { [size |-> 5, start |-> <<0, 0>>, goal |-> <<4, 4>>, walls |-> {}],
      [size |-> 3, start |-> <<1, 1>>, goal |-> <<2, 2>>,
       walls |-> {<<0, 1>>, <<1, 0>>, <<1, 2>>, <<2, 1>>}],
      [size |-> 3, start |-> <<0, 0>>, goal |-> <<0, 2>>,
       walls |-> {<<0, 1>>, <<1, 1>>}],
      [size |-> 4, start |-> <<0, 0>>, goal |-> <<2, 3>>,
       walls |-> {<<1, 3>>, <<2, 2>>}],
      [size |-> 5, start |-> <<1, 4>>, goal |-> <<4, 0>>,
       walls |-> {<<1, 3>>, <<3, 0>>, <<4, 1>>}],
      [size |-> 5, start |-> <<3, 1>>, goal |-> <<0, 4>>,
       walls |-> {<<1, 2>>, <<1, 4>>, <<2, 1>>, <<2, 2>>, <<3, 3>>, <<4, 0>>}],
      [size |-> 6, start |-> <<5, 0>>, goal |-> <<2, 5>>,
       walls |-> {<<1, 0>>, <<1, 2>>, <<1, 3>>, <<2, 4>>, <<3, 2>>, <<3, 5>>,
                  <<4, 1>>}] }

Configs == BoundedConfigs \cup Scenarios

(* line 44: the outcome of np.random.choice, walls where W says *)
RandomGrid(n, W) == [c \in Cells(n) |-> IF c \in W THEN WALL ELSE EMPTY]

(* lines 45-46 *)
ForceOpen(g, start, goal) ==
    [g EXCEPT ![ArrayIndex(start)] = EMPTY, ![ArrayIndex(goal)] = EMPTY]

(* an assignment without .copy(): both names hold the same array *)
ShareRef(src, fresh) == src

(* ndarray.copy(): the copy is the freshly allocated array, not src *)
CopyRef(src, fresh) == fresh

NoResult ==
    [kind |-> "none", grid |-> 0, shown |-> <<>>, heap |-> <<>>,
     popped |-> <<>>, marked |-> <<>>]

----------------------------------------------------------------------------
(* run_dashboard, lines 140-145 and 184-185: both engines are built, the    *)
(* second over copies of the first one's arrays, and both generators are    *)
(* created; no generator has been advanced.                                 *)
Init ==
    \E c \in Configs :
        LET g0 == ForceOpen(RandomGrid(c.size, c.walls), c.start, c.goal)
        IN  /\ GRID_SIZE = c.size
            /\ START_NODE = c.start
            /\ END_NODE = c.goal
            /\ grid = [e \in Engines |->
                          IF e = "dijkstra" THEN 1 ELSE CopyRef(1, 3)]
            /\ visual_grid = [e \in Engines |->
                          IF e = "dijkstra" THEN CopyRef(1, 2) ELSE CopyRef(2, 4)]
            /\ arrays = [r \in 1 .. 4 |-> g0]
            /\ eng = [e \in Engines |-> NewFrame(e, 0)]
            /\ out = [e \in Engines |-> NoResult]
            /\ runs = 1
            /\ history = [e \in Engines |-> <<>>]
            /\ firstRun = [e \in Engines |-> <<>>]
            /\ alone = [e \in Engines |->
                          [eng |-> NewFrame(e, 0), grid |-> g0, vis |-> g0,
                           steps |-> <<>>]]
            /\ finished = [e \in Engines |-> FALSE]
            /\ turn = "dijkstra"

(* what the driver sees of a result: its kind, the grid as it is when the    *)
(* result is handed over, and the heap list                                  *)
Seen(r) == [kind |-> r.kind, shown |-> r.vis, heap |-> r.heap]

AsSeen(h) == [kind |-> h.kind, shown |-> h.shown, heap |-> h.heap]

(* next(gen) for the generator of engine e, and what the driver keeps of it: *)
(* lines 203-205 and 210-211 for gen_d, lines 216-218 and 223-224 for gen_a  *)
Deliver(e) ==
    LET r == Resume(eng[e], arrays[grid[e]], arrays[visual_grid[e]])
        given == [kind |-> r.kind, grid |-> visual_grid[e], shown |-> r.vis,
                  heap |-> r.heap, popped |-> r.popped, marked |-> r.marked]
    IN  /\ eng' = [eng EXCEPT ![e] = r.eng]
        /\ arrays' = [arrays EXCEPT ![visual_grid[e]] = r.vis]
        /\ out' = [out EXCEPT ![e] = given]
        /\ history' = [history EXCEPT ![e] =
                          IF r.kind = "StopIteration" THEN @ ELSE Append(@, given)]
        /\ finished' = [finished EXCEPT ![e] = (r.kind # "Step")]
        /\ UNCHANGED <<GRID_SIZE, START_NODE, END_NODE, grid, visual_grid, runs,
                       firstRun>>

(* the same next(gen) on the engine of `alone`, which has its arrays to      *)
(* itself and is advanced whenever engine e is                               *)
AdvanceAlone(e) ==
    LET a == Resume(alone[e].eng, alone[e].grid, alone[e].vis)
    IN  alone' = [alone EXCEPT ![e] =
                     [@ EXCEPT !.eng = a.eng, !.vis = a.vis,
                               !.steps = IF a.kind = "StopIteration" THEN @
                                         ELSE Append(@, Seen(a))]]

Pull(e) == Deliver(e) /\ UNCHANGED alone

Idle ==
    UNCHANGED <<GRID_SIZE, START_NODE, END_NODE, arrays, grid, visual_grid, eng,
                out, runs, history, firstRun, alone, finished>>

AllFinished == \A e \in Engines : finished[e]

(* lines 199-211: the first half of the loop body *)
UpdateDijkstra ==
    /\ turn = "dijkstra"
    /\ ~AllFinished
    /\ turn' = "astar"
    /\ IF finished["dijkstra"] THEN Idle ELSE Pull("dijkstra")

(* lines 213-224: the second half of the loop body *)
UpdateAstar ==
    /\ turn = "astar"
    /\ turn' = "dijkstra"
    /\ IF finished["astar"] THEN Idle ELSE Pull("astar")

(* next() on a generator that has already given DONE: the case the driver's  *)
(* except StopIteration clauses (lines 210, 223) are there for               *)
PullAgain(e) ==
    /\ finished[e]
    /\ Pull(e)
    /\ UNCHANGED turn

(* lines 184-185 and 189-190 once more, on the same engines: run() is called *)
(* again and makes a new generator; the engine object keeps its fields.      *)
RunAgain ==
    /\ runs < MaxRuns
    /\ AllFinished
    /\ turn = "dijkstra"
    /\ runs' = runs + 1
    /\ eng' = [e \in Engines |-> NewFrame(e, eng[e].nodes_explored)]
    /\ out' = [e \in Engines |-> NoResult]
    /\ firstRun' = IF runs = 1 THEN history ELSE firstRun
    /\ history' = [e \in Engines |-> <<>>]
    /\ finished' = [e \in Engines |-> FALSE]
    /\ UNCHANGED <<GRID_SIZE, START_NODE, END_NODE, arrays, grid, visual_grid,
                   alone, turn>>

Next ==
    \/ UpdateDijkstra
    \/ UpdateAstar
    \/ PullAgain("dijkstra")
    \/ PullAgain("astar")
    \/ RunAgain

Spec == Init /\ [][Next]_vars

(* The two generators pulled in any order by some other driver, each next  *)
(* to a copy of its engine that is advanced alone                           *)
PullAny(e) ==
    /\ eng[e].pc # "closed"
    /\ Deliver(e)
    /\ AdvanceAlone(e)
    /\ UNCHANGED turn

NextAny ==
    \/ PullAny("dijkstra")
    \/ PullAny("astar")

SpecAny == Init /\ [][NextAny]_vars

(* Lines 83-84 on their own, for heaps longer than the small grids give:    *)
(* the heap list is drawn from a family of lists of up to MaxHeap entries   *)
(* with scattered, repeating priorities and distinct nodes, nothing else    *)
(* of the engine is used, and the one step takes the sample.                *)
Strides == {1, 3, 7}

HeapOf(n, k) ==
    [i \in 1 .. n |-> <<((k * i) + ((i * i) % 5)) % 23, <<i \div 8, i % 8>> >>]

HeapInit ==
    \E n \in 0 .. MaxHeap, k \in Strides :
        LET g0 == RandomGrid(8, {})
        IN  /\ GRID_SIZE = 8
            /\ START_NODE = <<0, 0>>
            /\ END_NODE = <<7, 7>>
            /\ grid = [e \in Engines |-> 1]
            /\ visual_grid = [e \in Engines |-> 2]
            /\ arrays = [r \in 1 .. 4 |-> g0]
            /\ eng = [e \in Engines |-> [NewFrame(e, 0) EXCEPT !.pq = HeapOf(n, k)]]
            /\ out = [e \in Engines |-> NoResult]
            /\ runs = 0
            /\ history = [e \in Engines |-> <<>>]
            /\ firstRun = [e \in Engines |-> <<>>]
            /\ alone = [e \in Engines |->
                          [eng |-> NewFrame(e, 0), grid |-> g0, vis |-> g0,
                           steps |-> <<>>]]
            /\ finished = [e \in Engines |-> FALSE]
            /\ turn = "sample"

TakeSample ==
    /\ turn = "sample"
    /\ turn' = "sampled"
    /\ out' = [e \in Engines |->
                  [NoResult EXCEPT !.kind = "sample",
                                   !.heap = Priorities(nsmallest(HEAP_SAMPLE, eng[e].pq))]]
    /\ UNCHANGED <<GRID_SIZE, START_NODE, END_NODE, arrays, grid, visual_grid, eng,
                   runs, history, firstRun, alone, finished>>

NextSample ==
    \/ Next
    \/ TakeSample

SpecSample == (Init \/ HeapInit) /\ [][NextSample]_vars

(* What UpdateDijkstra and UpdateAstar do to the driver's position; next()   *)
(* always returns or raises, so each is enabled exactly when its half of    *)
(* the loop body is, and only that half makes this change of turn.          *)
DijkstraTurn == turn = "dijkstra" /\ ~AllFinished /\ turn' = "astar"

AstarTurn == turn = "astar" /\ turn' = "dijkstra"

(* run_dashboard as it is, lines 199-226: the loop body runs again and      *)
(* again until both engines have finished                                   *)
DriverLoop ==
    \/ UpdateDijkstra
    \/ UpdateAstar

FairSpec ==
    Init /\ [][DriverLoop]_vars /\ WF_turn(DijkstraTurn) /\ WF_turn(AstarTurn)

(* PathfindingEngine(GRID_SIZE, OBSTACLE_DENSITY) at line 140 for any size   *)
(* and any START_NODE and END_NODE, the valid ones and the others: before   *)
(* the call there are no arrays and no engines.                             *)
CtorSizes == -1 .. MaxSize - 1

CtorCoords == (-MaxSize .. MaxSize) \X (-MaxSize .. MaxSize)

CornerWalls == { {}, {<<0, 0>>} }

CtorInit ==
    \E n \in CtorSizes, s \in CtorCoords, t \in CtorCoords :
        /\ GRID_SIZE = n
        /\ START_NODE = s
        /\ END_NODE = t
        /\ grid = [e \in Engines |-> 0]
        /\ visual_grid = [e \in Engines |-> 0]
        /\ arrays = <<>>
        /\ eng = [e \in Engines |-> NewFrame(e, 0)]
        /\ out = [e \in Engines |-> NoResult]
        /\ runs = 0
        /\ history = [e \in Engines |-> <<>>]
        /\ firstRun = [e \in Engines |-> <<>>]
        /\ alone = [e \in Engines |->
                      [eng |-> NewFrame(e, 0), grid |-> <<>>, vis |-> <<>>,
                       steps |-> <<>>]]
        /\ finished = [e \in Engines |-> FALSE]
        /\ turn = "construct"

(* the exception __init__ raises, or None: np.random.choice refuses a       *)
(* negative size (line 44), and the two assignments of lines 45-46 refuse   *)
(* an index that is out of bounds for the axis                              *)
CtorRaises ==
    IF GRID_SIZE < 0 THEN "ValueError"
    ELSE IF \E i \in 1 .. 2 :
                \/ ~IndexInBounds(START_NODE[i], GRID_SIZE)
                \/ ~IndexInBounds(END_NODE[i], GRID_SIZE)
         THEN "IndexError"
         ELSE "None"

(* lines 41-50 and 140-145, 184-190: the engines are built and their        *)
(* generators made, unless __init__ raises                                  *)
Construct ==
    /\ turn = "construct"
    /\ IF CtorRaises # "None"
       THEN /\ turn' = "raised"
            /\ out' = [e \in Engines |-> [NoResult EXCEPT !.kind = CtorRaises]]
            /\ UNCHANGED <<GRID_SIZE, START_NODE, END_NODE, arrays, grid,
                           visual_grid, eng, runs, history, firstRun, alone,
                           finished>>
       ELSE \E W \in CornerWalls :
                LET g0 == ForceOpen(RandomGrid(GRID_SIZE, W), START_NODE, END_NODE)
                IN  /\ turn' = "dijkstra"
                    /\ arrays' = [r \in 1 .. 4 |-> g0]
                    /\ grid' = [e \in Engines |->
                                   IF e = "dijkstra" THEN 1 ELSE CopyRef(1, 3)]
                    /\ visual_grid' = [e \in Engines |->
                                   IF e = "dijkstra" THEN CopyRef(1, 2)
                                   ELSE CopyRef(2, 4)]
                    /\ runs' = 1
                    /\ UNCHANGED <<GRID_SIZE, START_NODE, END_NODE, eng, out,
                                   history, firstRun, alone, finished>>

NextCtor ==
    \/ Construct
    \/ UpdateDijkstra
    \/ UpdateAstar

SpecCtor == CtorInit /\ [][NextCtor]_vars

----------------------------------------------------------------------------
(* Vocabulary of the properties *)

TheGrid == arrays[grid["dijkstra"]]

CellState(e) == arrays[visual_grid[e]]

OpenCells == { c \in DOMAIN TheGrid : TheGrid[c] = EMPTY }

Touching(a, b) ==
    \/ a[1] = b[1] /\ (a[2] = b[2] + 1 \/ b[2] = a[2] + 1)
    \/ a[2] = b[2] /\ (a[1] = b[1] + 1 \/ b[1] = a[1] + 1)

(* breadth-first search from the start, level by level: the number of edges *)
(* of a shortest path to the goal, or -1 when the flood never reaches it    *)
RECURSIVE Bfs(_, _, _)
Bfs(seen, front, d) ==
    IF END_NODE \in front THEN d
    ELSE IF front = {} THEN -1
    ELSE LET nxt == { c \in OpenCells \ seen : \E f \in front : Touching(c, f) }
         IN  Bfs(seen \cup nxt, nxt, d + 1)

ShortestLength == Bfs({START_NODE}, {START_NODE}, 0)

GoalReachable == ShortestLength >= 0

PathCells(e) == { c \in DOMAIN CellState(e) : CellState(e)[c] = PATH }

DoneGiven(e) == eng[e].pc \in {"line126", "closed"}

DoneInHistory(e) ==
    /\ history[e] # <<>>
    /\ history[e][Len(history[e])].kind = "Done"

----------------------------------------------------------------------------
(* C1: in uniform mode, whenever the goal is reachable, the path marked at  *)
(* Done has as many edges as a shortest path found by breadth-first search. *)
C1_UniformOptimal ==
    (DoneGiven("dijkstra") /\ GoalReachable)
        => Cardinality(PathCells("dijkstra")) - 1 = ShortestLength

(* a finished uniform run whose shortest path has to go round walls *)
C1_Witness ==
    /\ DoneGiven("dijkstra")
    /\ GoalReachable
    /\ ShortestLength > heuristic(START_NODE, END_NODE)
    /\ Cardinality(PathCells("dijkstra")) - 1 = ShortestLength

(* C2: in either mode a driver that keeps advancing a run gets Done: the    *)
(* expansion loop and the reconstruction walk end after finitely many       *)
(* advances.                                                                *)
C2_Terminates ==
    \A e \in Engines : (eng[e].pc = "created") ~> (out[e].kind = "Done")

(* both runs ended with Done, after expansions and a reconstruction walk *)
C2_Witness ==
    /\ \A e \in Engines : out[e].kind = "Done" /\ Len(history[e]) > 3
    /\ Cardinality(PathCells("astar")) > 2

(* C3: when the goal cannot be reached, in either mode no cell is ever      *)
(* marked path (not even the start), and the run still ends with Done, its  *)
(* frontier exhausted.                                                      *)
C3_NoPathNoMark ==
    ~GoalReachable =>
        \A e \in Engines :
            /\ PathCells(e) = {}
            /\ \A i \in 1 .. Len(history[e]) :
                   \A c \in DOMAIN history[e][i].shown : history[e][i].shown[c] # PATH
            /\ finished[e] =>
                   /\ DoneInHistory(e)
                   /\ eng[e].pq = <<>>
                   /\ END_NODE \notin DOMAIN eng[e].came_from

(* both runs ended on a grid whose goal is walled off, after expansions *)
C3_Witness ==
    /\ ~GoalReachable
    /\ \A e \in Engines :
           finished[e] /\ out[e].kind = "Done" /\ eng[e].nodes_explored > 0

----------------------------------------------------------------------------
(* C4: a second run on the same engine with the same mode, started after    *)
(* the first has given Done, delivers the same Steps (snapshot and heap     *)
(* sample) in the same order and ends with the same final grid.             *)
C4_SameStepsAgain ==
    \A e \in Engines :
        runs = 2 =>
            /\ Len(history[e]) <= Len(firstRun[e])
            /\ \A i \in 1 .. Len(history[e]) : AsSeen(history[e][i]) = AsSeen(firstRun[e][i])
            /\ DoneGiven(e) => Len(history[e]) = Len(firstRun[e])

(* C5: Done is given once per run, as the last result; after it next() only *)
(* raises StopIteration (no Step, no second Done) and changes neither the   *)
(* visual grid nor nodes_explored.                                          *)
C5_DoneIsLast ==
    \A e \in Engines :
        /\ \A i \in 1 .. Len(history[e]) :
               history[e][i].kind = "Done" <=> (DoneGiven(e) /\ i = Len(history[e]))
        /\ DoneGiven(e) => DoneInHistory(e)
        /\ out[e].kind = "StopIteration" => eng[e].pc = "closed"
        /\ eng[e].pc = "closed" => out[e].kind = "StopIteration"

C5_AfterDone ==
    \A e \in Engines :
        (DoneGiven(e) /\ runs' = runs) =>
            /\ CellState(e)' = CellState(e)
            /\ eng'[e].nodes_explored = eng[e].nodes_explored
            /\ history'[e] = history[e]
            /\ eng'[e].pc = IF out'[e] = out[e] THEN eng[e].pc ELSE "closed"
            /\ out'[e] # out[e] => out'[e].kind = "StopIteration"

(* C5: in every state C5_DoneIsLast, and every step keeps C5_AfterDone *)
C5_DoneOnceThenStop == [](C5_DoneIsLast) /\ [][C5_AfterDone]_vars

(* next() was called after Done and raised StopIteration, on a run that     *)
(* marked a path                                                            *)
C5_Witness ==
    \E e \in Engines :
        /\ eng[e].pc = "closed"
        /\ out[e].kind = "StopIteration"
        /\ DoneInHistory(e)
        /\ PathCells(e) # {}

(* C6, as claimed: every advance that returns a Step does exactly one       *)
(* expansion (one pop) or exactly one path marking, never both.             *)
C6_OneThingPerStep ==
    \A e \in Engines :
        out[e].kind = "Step" =>
            \/ Len(out[e].popped) = 1 /\ out[e].marked = <<>>
            \/ out[e].popped = <<>> /\ Len(out[e].marked) = 1

(* C6, amended: every advance that returns a Step does exactly one          *)
(* expansion or exactly one path marking, except the advance that pops the  *)
(* goal: it does the pop of the goal, relaxes nothing, and marks the goal   *)
(* as path in the same advance.                                             *)
C6_OneThingExceptGoalPop ==
    \A e \in Engines :
        out[e].kind = "Step" =>
            \/ /\ Len(out[e].popped) = 1
               /\ out[e].popped[1] # END_NODE
               /\ out[e].marked = <<>>
            \/ /\ out[e].popped = <<>>
               /\ Len(out[e].marked) = 1
            \/ /\ out[e].popped = <<END_NODE>>
               /\ out[e].marked = <<END_NODE>>
               /\ out[e].heap = <<>>

(* the advance that popped the goal and marked it *)
C6_Witness ==
    \E e \in Engines :
        /\ out[e].kind = "Step"
        /\ out[e].popped = <<END_NODE>>
        /\ out[e].marked = <<END_NODE>>
        /\ eng[e].curr # START_NODE

(* C7: the grid delivered with a Step keeps the contents it had when it was *)
(* delivered, whatever the engine does afterwards.                          *)
C7_SnapshotKept ==
    \A e \in Engines :
        \A i \in 1 .. Len(history[e]) :
            history[e][i].kind = "Step" =>
                arrays[history[e][i].grid] = history[e][i].shown

(* C8: under every interleaving of the two generators, each engine's Steps, *)
(* visual grid, grid, nodes_explored and frame are those of the same engine *)
(* advanced alone.                                                          *)
C8_AsWhenAlone ==
    \A e \in Engines :
        /\ eng[e] = alone[e].eng
        /\ CellState(e) = alone[e].vis
        /\ arrays[grid[e]] = alone[e].grid
        /\ [i \in 1 .. Len(history[e]) |-> AsSeen(history[e][i])] = alone[e].steps

(* the weighted engine has finished with a path while the uniform engine,   *)
(* advanced in between, is in the middle of its expansion                   *)
C8_Witness ==
    /\ DoneGiven("astar")
    /\ PathCells("astar") # {}
    /\ eng["dijkstra"].pc = "line113"
    /\ Len(history["dijkstra"]) = 2
    /\ CellState("dijkstra") # CellState("astar")

(* C9: in either mode cost_so_far of a node only ever goes down: a step     *)
(* leaves it as it is (then the node is not pushed again and keeps its      *)
(* parent) or makes it strictly lower; cost_so_far of the start stays 0.    *)
EntriesFor(pq, c) == { i \in 1 .. Len(pq) : pq[i][2] = c }

C9_StartIsZero ==
    \A e \in Engines :
        eng[e].pc # "created" =>
            /\ START_NODE \in DOMAIN eng[e].cost_so_far
            /\ eng[e].cost_so_far[START_NODE] = 0
            /\ eng[e].came_from[START_NODE] = None

C9_Relaxation ==
    \A e \in Engines :
        eng'[e].pc # "created" =>
            \A c \in DOMAIN eng[e].cost_so_far :
                /\ c \in DOMAIN eng'[e].cost_so_far
                /\ eng'[e].cost_so_far[c] <= eng[e].cost_so_far[c]
                /\ eng'[e].cost_so_far[c] = eng[e].cost_so_far[c] =>
                       /\ eng'[e].came_from[c] = eng[e].came_from[c]
                       /\ Cardinality(EntriesFor(eng'[e].pq, c))
                              <= Cardinality(EntriesFor(eng[e].pq, c))
                /\ eng'[e].cost_so_far[c] < eng[e].cost_so_far[c] =>
                       Cardinality(EntriesFor(eng'[e].pq, c))
                           = Cardinality(EntriesFor(eng[e].pq, c)) + 1

(* C9: in every state C9_StartIsZero, and every step is a C9_Relaxation *)
C9_StrictlyDecreasing == [](C9_StartIsZero) /\ [][C9_Relaxation]_vars

(* the heap holds an entry pushed for a node at a cost that has since been  *)
(* lowered: the node's cost was assigned a second time                      *)
C9_Witness ==
    \E e \in Engines :
        \E i \in 1 .. Len(eng[e].pq) :
            LET c == eng[e].pq[i][2]
            IN  eng[e].pq[i][1] > Priority2(e, eng[e].cost_so_far[c], c)

(* C10: the heap list of an expansion Step has min(50, length of the heap   *)
(* before the pop) entries, they are the lowest priorities of that heap in  *)
(* ascending order, and taking them removes nothing from the heap: apart    *)
(* from the entry popped next, every entry is still there after the step.   *)
NumBelow(pq, x) == Cardinality({ i \in 1 .. Len(pq) : pq[i][1] < x })

NumUpTo(pq, x) == Cardinality({ i \in 1 .. Len(pq) : pq[i][1] <= x })

(* sample[k] is the k-th lowest priority of pq, for every k *)
LowestOf(pq, sample) ==
    /\ Len(sample) = Min(HEAP_SAMPLE, Len(pq))
    /\ \A k \in 1 .. Len(sample) :
           /\ NumBelow(pq, sample[k]) < k
           /\ k <= NumUpTo(pq, sample[k])
    /\ \A k \in 1 .. Len(sample) - 1 : sample[k] <= sample[k + 1]

HeapBefore(e) ==
    IF eng[e].pc = "created" THEN <<<<0, START_NODE>>>> ELSE eng[e].pq

Entries(pq) == { pq[i] : i \in 1 .. Len(pq) }

C10_InRun ==
    \A e \in Engines :
        (history'[e] # history[e] /\ out'[e].kind = "Step" /\ out'[e].marked = <<>>) =>
            /\ LowestOf(HeapBefore(e), out'[e].heap)
            /\ \E m \in Entries(HeapBefore(e)) :
                   /\ m[2] = out'[e].popped[1]
                   /\ \A x \in Entries(HeapBefore(e)) : x = m \/ TupleLess(m, x)
                   /\ Entries(HeapBefore(e)) \ {m} \subseteq Entries(eng'[e].pq)

C10_Alone ==
    (turn = "sample" /\ turn' = "sampled") =>
        \A e \in Engines :
            /\ LowestOf(eng[e].pq, out'[e].heap)
            /\ eng'[e].pq = eng[e].pq

(* C10: every expansion of a run and every sample taken on its own gives  *)
(* the lowest priorities and leaves the heap as it was                      *)
C10_HeapSample == [][C10_InRun /\ C10_Alone]_vars

(* a sample cut to 50 entries, taken of a longer heap *)
C10_Witness ==
    \E e \in Engines :
        /\ out[e].kind = "sample"
        /\ Len(eng[e].pq) > HEAP_SAMPLE
        /\ Len(out[e].heap) = HEAP_SAMPLE

----------------------------------------------------------------------------
(* the nodes whose pop marked them visited in the current run (lines 92-94) *)
PoppedAt(e) ==
    { i \in 1 .. Len(history[e]) : history[e][i].popped # <<>> }

MarkedVisited(e) ==
    { history[e][i].popped[1] : i \in PoppedAt(e) } \ {START_NODE, END_NODE}

InExpansion(e) == eng[e].pc = "line113"

(* C11: in uniform mode no node is on the heap twice and every entry        *)
(* carries its node's cost_so_far (no stale entry), no node is popped       *)
(* twice, and nodes_explored is the number of distinct cells other than the *)
(* start that were marked visited, which is at most the number of open      *)
(* cells; on a freshly built engine these are, while the expansion lasts,   *)
(* the cells whose state is visited.                                        *)
C11_NoStaleEntry ==
    LET d == eng["dijkstra"]
    IN  d.pc # "created" =>
            /\ \A i, j \in 1 .. Len(d.pq) : d.pq[i][2] = d.pq[j][2] => i = j
            /\ \A i \in 1 .. Len(d.pq) :
                   d.pq[i][1] = 2 * d.cost_so_far[d.pq[i][2]]
            /\ \A i, j \in PoppedAt("dijkstra") :
                   history["dijkstra"][i].popped = history["dijkstra"][j].popped
                       => i = j
            /\ d.nodes_explored = Cardinality(MarkedVisited("dijkstra"))
            /\ d.nodes_explored <= Cardinality(OpenCells)
            /\ (runs = 1 /\ InExpansion("dijkstra")) =>
                   MarkedVisited("dijkstra")
                       = { c \in OpenCells : CellState("dijkstra")[c] = VISITED }
            /\ (GRID_SIZE = 5 /\ Cardinality(OpenCells) = 25) =>
                   d.nodes_explored <= 25

(* C11: in uniform mode a step never assigns cost_so_far of a node that has *)
(* one, so a node is pushed when it is first reached and never again.       *)
C11_PushedOnce ==
    eng'["dijkstra"].pc # "created" =>
        \A c \in DOMAIN eng["dijkstra"].cost_so_far :
            /\ eng'["dijkstra"].cost_so_far[c] = eng["dijkstra"].cost_so_far[c]
            /\ Cardinality(EntriesFor(eng'["dijkstra"].pq, c))
                   <= Cardinality(EntriesFor(eng["dijkstra"].pq, c))

(* C11: in every state C11_NoStaleEntry, and every step is a C11_PushedOnce *)
C11_UniformPushesOnce == [](C11_NoStaleEntry) /\ [][C11_PushedOnce]_vars

(* the uniform run on the open 5x5 grid from (0,0) to (4,4) has ended with  *)
(* a path of 8 edges                                                        *)
C11_Witness ==
    /\ GRID_SIZE = 5
    /\ Cardinality(OpenCells) = 25
    /\ START_NODE = <<0, 0>>
    /\ END_NODE = <<4, 4>>
    /\ DoneGiven("dijkstra")
    /\ Cardinality(PathCells("dijkstra")) = 9
    /\ eng["dijkstra"].nodes_explored > 8
    /\ eng["dijkstra"].nodes_explored <= 25

----------------------------------------------------------------------------
(* every cell next to the start is a wall or lies outside the grid *)
WalledIn == ~ \E c \in OpenCells : Touching(c, START_NODE)

(* C12: when all four neighbours of the start are blocked or out of bounds, *)
(* the run of either mode is one Step, the pop of the start with nothing    *)
(* relaxed and nothing marked, followed by Done; no cell is marked path and *)
(* nodes_explored is 0.                                                     *)
C12_WalledInStart ==
    WalledIn =>
        \A e \in Engines :
            /\ eng[e].nodes_explored = 0
            /\ PathCells(e) = {}
            /\ CellState(e) = TheGrid
            /\ Len(history[e]) <= 2
            /\ Len(history[e]) >= 1 =>
                   /\ history[e][1].kind = "Step"
                   /\ history[e][1].popped = <<START_NODE>>
                   /\ history[e][1].marked = <<>>
                   /\ history[e][1].heap = <<0>>
                   /\ eng[e].pq = <<>>
                   /\ DOMAIN eng[e].cost_so_far = {START_NODE}
                   /\ DOMAIN eng[e].came_from = {START_NODE}
            /\ Len(history[e]) = 2 =>
                   /\ history[e][2].kind = "Done"
                   /\ history[e][2].popped = <<>>
                   /\ history[e][2].marked = <<>>
            /\ DoneGiven(e) <=> Len(history[e]) = 2

(* both runs on a grid whose start is walled in have given their one Step   *)
(* and Done                                                                 *)
C12_Witness ==
    /\ WalledIn
    /\ START_NODE # END_NODE
    /\ \A e \in Engines :
           /\ DoneGiven(e)
           /\ Len(history[e]) = 2
           /\ history[e][1].kind = "Step"
           /\ eng[e].nodes_explored = 0

----------------------------------------------------------------------------
(* a size that is not positive, or a start or goal outside [0, size) *)
InvalidConfiguration ==
    \/ GRID_SIZE <= 0
    \/ START_NODE \notin Cells(GRID_SIZE)
    \/ END_NODE \notin Cells(GRID_SIZE)

Constructed == turn \notin {"construct", "raised"}

(* C13: a construction with a size <= 0, or with a start or goal outside    *)
(* [0, size) in either component, fails at construction and yields no grid: *)
(* no engine is ever built on such a configuration, so none runs on it.     *)
C13_InvalidRejected ==
    InvalidConfiguration =>
        /\ ~Constructed
        /\ arrays = <<>>
        /\ \A e \in Engines : eng[e].pc = "created"

----------------------------------------------------------------------------
(* C14: in either mode, within the run of a freshly built engine, a step    *)
(* never changes the state of a cell from visited to queued: a relaxation   *)
(* of a visited cell leaves it visited.                                     *)
C14_Step ==
    \A e \in Engines :
        runs = 1 =>
            \A c \in DOMAIN CellState(e) :
                CellState(e)[c] = VISITED => CellState(e)'[c] # QUEUED

C14_VisitedStays == [][C14_Step]_vars

----------------------------------------------------------------------------
(* the advances of the current run that popped a node other than the start  *)
(* and the goal, one for each pop, repeated pops of a node included         *)
CountedPops(e) ==
    { i \in PoppedAt(e) : history[e][i].popped[1] \notin {START_NODE, END_NODE} }

(* C15: once a run has been advanced, nodes_explored is the number of pops  *)
(* so far of a node that is neither the start nor the goal, a node popped   *)
(* again being counted again; so it is at least the number of distinct      *)
(* nodes marked visited. Every advance pops at most one node, and only the  *)
(* last pop of a run can be the goal.                                       *)
C15_CountsEveryPop ==
    \A e \in Engines :
        eng[e].pc # "created" =>
            /\ eng[e].nodes_explored = Cardinality(CountedPops(e))
            /\ eng[e].nodes_explored >= Cardinality(MarkedVisited(e))
            /\ \A i \in PoppedAt(e) :
                   /\ Len(history[e][i].popped) = 1
                   /\ history[e][i].popped[1] = END_NODE =>
                          \A j \in PoppedAt(e) : j <= i

(* a node was popped a second time and counted a second time *)
C15_Witness ==
    \E e \in Engines :
        /\ eng[e].pc # "created"
        /\ eng[e].nodes_explored > Cardinality(MarkedVisited(e))
        /\ Cardinality(MarkedVisited(e)) > 0

----------------------------------------------------------------------------
(* the frame as the while loop finds it: the first next() runs lines 71-76  *)
(* before it enters the loop                                                *)
FrameBefore(e) == IF eng[e].pc = "created" THEN RunInit(eng[e]) ELSE eng[e]

(* the advance of engine e made in this step is an expansion: it popped a   *)
(* node that is not the goal and gave a Step                                *)
Expanded(e) ==
    /\ history'[e] # history[e]
    /\ out'[e].kind = "Step"
    /\ out'[e].marked = <<>>

Count(pq, x) == Cardinality({ i \in 1 .. Len(pq) : pq[i] = x })

OpenNeighbours(c) == { n \in OpenCells : Touching(n, c) }

(* C16: an expansion changes the heap only by taking out the popped entry   *)
(* and adding one entry for every neighbour that is relaxed (it has no      *)
(* cost_so_far, or the new cost is lower); every other entry stays, older   *)
(* entries of a relaxed node included. A neighbour that is not relaxed      *)
(* keeps its cost_so_far, came_from and cell state, and so does every node  *)
(* that is no neighbour, but for the popped node's cell.                    *)
C16_Expansion ==
    \A e \in Engines :
        Expanded(e) =>
            LET f == FrameBefore(e)
                current == out'[e].popped[1]
                m == CHOOSE x \in Entries(f.pq) :
                        \A y \in Entries(f.pq) : y = x \/ TupleLess(x, y)
                new_cost == f.cost_so_far[current] + 1
                Relaxed == { n \in OpenNeighbours(current) :
                                \/ n \notin DOMAIN f.cost_so_far
                                \/ new_cost < f.cost_so_far[n] }
                Pushed == { <<Priority2(e, new_cost, n), n>> : n \in Relaxed }
            IN  /\ m[2] = current
                /\ \A x \in Entries(f.pq) \cup Entries(eng'[e].pq) \cup Pushed :
                       Count(eng'[e].pq, x)
                           = Count(f.pq, x) - (IF x = m THEN 1 ELSE 0)
                                            + (IF x \in Pushed THEN 1 ELSE 0)
                /\ Len(eng'[e].pq) = Len(f.pq) - 1 + Cardinality(Relaxed)
                /\ DOMAIN eng'[e].cost_so_far = DOMAIN f.cost_so_far \cup Relaxed
                /\ DOMAIN eng'[e].came_from = DOMAIN eng'[e].cost_so_far
                /\ \A n \in Relaxed :
                       /\ eng'[e].cost_so_far[n] = new_cost
                       /\ eng'[e].came_from[n] = current
                       /\ n # END_NODE => CellState(e)'[n] = QUEUED
                /\ \A n \in DOMAIN f.cost_so_far \ Relaxed :
                       /\ eng'[e].cost_so_far[n] = f.cost_so_far[n]
                       /\ eng'[e].came_from[n] = f.came_from[n]
                /\ \A n \in DOMAIN CellState(e) \ (Relaxed \cup {current}) :
                       CellState(e)'[n] = CellState(e)[n]

C16_FrontierFrame == [][C16_Expansion]_vars

(* the last expansion relaxed a neighbour that has an older entry on the    *)
(* heap, which is still there, and left another neighbour as it was         *)
C16_Witness ==
    \E e \in Engines :
        /\ out[e].kind = "Step"
        /\ out[e].marked = <<>>
        /\ \E n \in OpenNeighbours(out[e].popped[1]) :
               /\ Cardinality(EntriesFor(eng[e].pq, n)) >= 2
               /\ eng[e].pq[Len(eng[e].pq)][2] = n
               /\ eng[e].came_from[n] = out[e].popped[1]
        /\ \E n \in OpenNeighbours(out[e].popped[1]) :
               /\ n \in DOMAIN eng[e].came_from
               /\ eng[e].came_from[n] # out[e].popped[1]

----------------------------------------------------------------------------
(* the entry of the popped node that the advance of this step took off the *)
(* heap                                                                     *)
PoppedEntry(e) ==
    CHOOSE x \in Entries(FrameBefore(e).pq) :
        /\ x[2] = out'[e].popped[1]
        /\ Count(eng'[e].pq, x) < Count(FrameBefore(e).pq, x)

(* an entry is stale when its node's cost_so_far has been lowered since the *)
(* entry was pushed: it carries a higher priority than the node has now     *)
Stale(e, f, x) == x[1] > Priority2(e, f.cost_so_far[x[2]], x[2])

StalePop(e) ==
    /\ Expanded(e)
    /\ Stale(e, FrameBefore(e), PoppedEntry(e))

(* C17: the pop of a stale entry relaxes no neighbour: cost_so_far,         *)
(* came_from and the cell states are as before and nothing is pushed; only  *)
(* nodes_explored goes up by one and the popped entry leaves the heap. When *)
(* it is popped, the entry with the node's present cost_so_far is no longer *)
(* on the heap: it was popped in an earlier advance.                        *)
C17_StalePopStep ==
    \A e \in Engines :
        StalePop(e) =>
            LET f == FrameBefore(e)
                m == PoppedEntry(e)
            IN  /\ out'[e].popped = <<m[2]>>
                /\ eng'[e].cost_so_far = f.cost_so_far
                /\ eng'[e].came_from = f.came_from
                /\ CellState(e)' = CellState(e)
                /\ eng'[e].nodes_explored = f.nodes_explored + 1
                /\ Len(eng'[e].pq) = Len(f.pq) - 1
                /\ \A x \in Entries(f.pq) :
                       Count(eng'[e].pq, x) = Count(f.pq, x) - (IF x = m THEN 1 ELSE 0)
                /\ \A x \in Entries(f.pq) : x[2] = m[2] => Stale(e, f, x)
                /\ \E i \in PoppedAt(e) : history[e][i].popped = <<m[2]>>

C17_StalePopIsIdle == [][C17_StalePopStep]_vars

(* the last advance popped a node that had been popped before, from an      *)
(* entry left behind by a relaxation, and the grid it gave is the grid of   *)
(* the advance before                                                       *)
C17_Witness ==
    \E e \in Engines :
        LET n == Len(history[e])
        IN  /\ n >= 2
            /\ out[e] = history[e][n]
            /\ out[e].kind = "Step"
            /\ out[e].marked = <<>>
            /\ \E i \in 1 .. n - 1 : history[e][i].popped = out[e].popped
            /\ history[e][n].shown = history[e][n - 1].shown
            /\ eng[e].nodes_explored > Cardinality(MarkedVisited(e))

----------------------------------------------------------------------------
(* the order on (priority, row, column), written out *)
LexBefore(a, b) ==
    \/ a[1] < b[1]
    \/ a[1] = b[1] /\ a[2][1] < b[2][1]
    \/ a[1] = b[1] /\ a[2][1] = b[2][1] /\ a[2][2] < b[2][2]

Popped(e) ==
    /\ history'[e] # history[e]
    /\ out'[e].popped # <<>>

(* the place of the step from p to n in the list of directions *)
DirIndex(p, n) ==
    CHOOSE i \in 1 .. 4 :
        n = <<p[1] + directions[i][1], p[2] + directions[i][2]>>

(* C18: every pop, the pop of the goal included, takes the entry that comes *)
(* first in the order on (priority, row, column): every other entry of the  *)
(* heap has a higher priority, or the same priority and a higher row, or    *)
(* the same priority and row and a higher column, wherever it lies in the   *)
(* order of the pushes.                                                     *)
C18_PopStep ==
    \A e \in Engines :
        Popped(e) =>
            \A y \in Entries(FrameBefore(e).pq) :
                y = PoppedEntry(e) \/ LexBefore(PoppedEntry(e), y)

C18_PopsLexMin == [][C18_PopStep]_vars

(* the node popped last was pushed after a node of the same priority and a  *)
(* higher row, in the same pass over the neighbours of their parent, and    *)
(* that node is still on the heap                                           *)
C18_Witness ==
    \E e \in Engines :
        /\ out[e].kind = "Step"
        /\ out[e].marked = <<>>
        /\ LET current == out[e].popped[1]
           IN  /\ current # START_NODE
               /\ \E i \in 1 .. Len(eng[e].pq) :
                      LET y == eng[e].pq[i]
                      IN  /\ y[1] = Priority2(e, eng[e].cost_so_far[current], current)
                          /\ y[2][1] > current[1]
                          /\ eng[e].came_from[y[2]] = eng[e].came_from[current]
                          /\ DirIndex(eng[e].came_from[current], y[2])
                                 < DirIndex(eng[e].came_from[current], current)

----------------------------------------------------------------------------
(* the came_from links followed from node c, as the sequence of the nodes   *)
(* met, ending at the start (or after k links)                              *)
RECURSIVE ChainFrom(_, _, _)
ChainFrom(came_from, c, k) ==
    IF c = START_NODE \/ k = 0 \/ c \notin DOMAIN came_from
    THEN <<c>>
    ELSE <<c>> \o ChainFrom(came_from, came_from[c], k - 1)

Chain(e) ==
    ChainFrom(eng[e].came_from, END_NODE, Cardinality(DOMAIN eng[e].came_from))

GoalPopped(e) == \E i \in PoppedAt(e) : history[e][i].popped = <<END_NODE>>

(* the advances of the current run that marked a cell as path, in order *)
Marking(e) ==
    LET marks(h) == h.marked # <<>>
    IN  SelectSeq(history[e], marks)

(* C19: once the goal has been popped and Done given, the cells marked path *)
(* are exactly the nodes of the came_from chain from the goal to the start: *)
(* it begins with the goal and ends with the start, its nodes are distinct  *)
(* open cells, each next to the one before, and no other cell is path. The  *)
(* walk marks them in that order, one cell per advance, and gives a Step    *)
(* for every cell but the start, which is marked by the advance that gives  *)
(* Done.                                                                    *)
C19_PathIsChain ==
    \A e \in Engines :
        (DoneGiven(e) /\ GoalPopped(e)) =>
            LET chain == Chain(e)
                n == Len(chain)
            IN  /\ chain[1] = END_NODE
                /\ chain[n] = START_NODE
                /\ \A i \in 1 .. n : chain[i] \in OpenCells
                /\ \A i \in 1 .. n - 1 : Touching(chain[i], chain[i + 1])
                /\ \A i, j \in 1 .. n : chain[i] = chain[j] => i = j
                /\ PathCells(e) = { chain[i] : i \in 1 .. n }
                /\ Len(Marking(e)) = n
                /\ \A i \in 1 .. n :
                       /\ Marking(e)[i].marked = <<chain[i]>>
                       /\ Marking(e)[i].kind = IF i < n THEN "Step" ELSE "Done"
                       /\ Marking(e)[i].shown[chain[i]] = PATH
                       /\ \A j \in i + 1 .. n :
                              j < n => Marking(e)[i].shown[chain[j]] # PATH

(* the weighted run has ended with a path that is longer than the shortest  *)
(* one, marked cell by cell                                                 *)
C19_Witness ==
    /\ DoneGiven("astar")
    /\ GoalPopped("astar")
    /\ runs = 1
    /\ Len(Chain("astar")) > ShortestLength + 1
    /\ Cardinality(PathCells("astar")) = Len(Chain("astar"))
    /\ Len(Marking("astar")) = Len(Chain("astar"))

----------------------------------------------------------------------------
(* C20: in every state of a run that has been advanced, in either mode,     *)
(* came_from of the start is None and every other node n with a came_from   *)
(* has cost_so_far[came_from[n]] + 1 <= cost_so_far[n], with equality for   *)
(* the uniform engine; following came_from from n reaches the start after   *)
(* at most cost_so_far[n] links, without meeting a node twice.              *)
C20_ParentCosts ==
    \A e \in Engines :
        eng[e].pc # "created" =>
            LET came_from == eng[e].came_from
                cost_so_far == eng[e].cost_so_far
            IN  /\ came_from[START_NODE] = None
                /\ DOMAIN came_from = DOMAIN cost_so_far
                /\ \A n \in DOMAIN came_from \ {START_NODE} :
                       /\ came_from[n] \in DOMAIN cost_so_far
                       /\ Touching(came_from[n], n)
                       /\ cost_so_far[came_from[n]] + 1 <= cost_so_far[n]
                       /\ e = "dijkstra" =>
                              cost_so_far[came_from[n]] + 1 = cost_so_far[n]
                /\ \A n \in DOMAIN came_from :
                       LET chain == ChainFrom(came_from, n, cost_so_far[n])
                       IN  /\ chain[Len(chain)] = START_NODE
                           /\ Len(chain) <= cost_so_far[n] + 1
                           /\ \A i, j \in 1 .. Len(chain) :
                                  chain[i] = chain[j] => i = j

(* the cost of a node's parent has been lowered since the node was reached  *)
(* from it, and the node's cost has not been lowered yet                    *)
C20_Witness ==
    \E n \in DOMAIN eng["astar"].came_from \ {START_NODE} :
        /\ eng["astar"].pc = "line113"
        /\ eng["astar"].cost_so_far[eng["astar"].came_from[n]] + 1
               < eng["astar"].cost_so_far[n]
        /\ Len(ChainFrom(eng["astar"].came_from, n, eng["astar"].cost_so_far[n]))
               < eng["astar"].cost_so_far[n] + 1

====
